---- MODULE Spec2Model ----
(***************************************************************************)
(* Payslip-mailer: the batch pipeline of one upload batch.                 *)
(*                                                                         *)
(* One payslip_uploads row (the batch) and its payslips rows are the       *)
(* shared store.  HTTP requests (PayslipService.uploadAndProcess,          *)
(* sendBatch, resendPayslip) run in client slots; the BullMQ worker        *)
(* (PayslipQueueConsumer, concurrency 1) runs processPayslipUpload and     *)
(* processPayslipSend.  Every await on the store or on the Notifier is a   *)
(* step boundary: the code between two awaits is one atomic action.        *)
(* Soft-deleted rows (deletedAt) are left out: nothing here deletes.       *)
(* Faults: a corrupt upload, a failing lookup or write of a payslip row, a *)
(* refusing Notifier, a failing read of the batch by the send job.  Writes *)
(* of the batch row, progress reports and audit entries succeed.  The      *)
(* worker's progress reports are kept in proc[Worker].progress.  A run     *)
(* reads its selection in the order of creation, except under SpecOrder,   *)
(* where it reads it in any order the store may return.                    *)
(***************************************************************************)
EXTENDS Integers, Sequences, FiniteSets, TLC

\* ---------------------------------------------------------------- bounds
MaxDocs == 3        \* documents in one uploaded file
NEmp == 1           \* employees in the directory (ids 1..NEmp)
MaxClients == 2     \* HTTP requests in flight at once
MaxRows == 1        \* payslips of the batch the concurrent requests work on
MaxEntries == 2     \* entries of one container of a nested upload
MaxNest == 2        \* containers nested in one another in an upload
MaxJobs == 4        \* jobs submitted to the queues
MaxBulk == 101      \* candidates of the ingest that is followed chunk by chunk
MaxPerm == 3        \* rows of a selection that the store returns in every order
MaxSel == 21        \* payslips of the batch whose run is followed chunk by chunk
MaxFailures == 1    \* failed payslips of such a run

NULL == "null"
SET == "set"
Worker == 0
Clients == 1..MaxClients
Procs == {Worker} \cup Clients

\* A document of the upload: -1 carries no IPPIS number, 0 carries one that
\* matches no employee, e >= 1 carries the number of employee e.
NoIppis == -1
Documents == {NoIppis, 0} \cup (1..NEmp)

\* The other entries of a ZIP archive: a directory, a file that is neither
\* PDF nor ZIP, and a nested ZIP archive.
Dir == -2
Other == -3
Zip == -4

\* An upload is a chain of containers: its head holds the entries of the
\* uploaded archive, and every Zip entry of a container holds the rest of
\* the chain (an empty archive at the end of the chain).  An entry is named
\* by its position.  A single PDF is the archive of that one document: both
\* branches of the upload code yield the same candidates for it.
FilesOf(docs) == {<<f>> : f \in UNION {[1..n -> docs] : n \in 0..MaxDocs}}
\* Every upload, and the uploads whose numbers name no employee but the first.
Files == FilesOf(Documents)
Files1 == FilesOf({NoIppis, 0, 1})

\* An archive that holds one archive with the documents of a flat upload.
NestedFiles == {<<<<Zip>>>> \o f : f \in Files}

\* Archives nested up to MaxNest deep, of at most MaxEntries entries each.
ZipEntries == {1, Dir, Other, Zip}
Levels == UNION {[1..n -> ZipEntries] : n \in 0..MaxEntries}
HasZip(entries) == \E k \in DOMAIN entries : entries[k] = Zip
Zips ==
  {zip \in UNION {[1..d -> Levels] : d \in 1..MaxNest} :
     \A k \in 1..(Len(zip) - 1) : HasZip(zip[k])}

VARIABLES upload, payslips, proc, accepted, jobs

vars == <<upload, payslips, proc, accepted, jobs>>

NoUpload == [status |-> "none", emailStatus |-> "none", totalFiles |-> 0,
             processedFiles |-> 0, successCount |-> 0, failureCount |-> 0,
             sentAt |-> NULL, completedAt |-> NULL]

NoResult == [kind |-> "none", successCount |-> 0, failureCount |-> 0,
             skippedCount |-> 0, emailStatus |-> "none", totalFiles |-> 0,
             processedFiles |-> 0, failedFiles |-> 0]

Idle == [op |-> "idle", pc |-> "idle", sel |-> <<>>, i |-> 0,
         successCount |-> 0, failureCount |-> 0, skippedCount |-> 0,
         emailSent |-> FALSE, inputs |-> <<>>, nCandidates |-> 0,
         processedCount |-> 0, failedCount |-> 0, log |-> <<>>,
         delays |-> <<>>, progress |-> <<>>, buffers |-> <<>>,
         result |-> NoResult]

\* ------------------------------------------------------------ store rows
NewUpload == [NoUpload EXCEPT !.status = "processing", !.emailStatus = "pending",
                              !.totalFiles = 1]

DefaultUpload == [NoUpload EXCEPT !.status = "pending", !.emailStatus = "pending"]

NewPayslip(id, emp) == [id |-> id, employeeId |-> emp, emailSent |-> FALSE,
                        emailSentAt |-> NULL, emailError |-> NULL]

\* ------------------------------------------------------------ extraction
\* splitBulkPdf: one candidate per document, dropped when no number is found.
splitBulkPdf(doc) == IF doc = NoIppis THEN <<>> ELSE <<doc>>

\* `${path.basename(name)}::${nf.fileName}`: the files of a nested archive
\* under the name of its entry.
Prefixed(k, nested) ==
  [j \in 1..Len(nested) |-> [nested[j] EXCEPT !.fileName = <<k>> \o @]]

\* The loop over the entries of one archive, from entry k on.
RECURSIVE EntryFiles(_, _, _)
EntryFiles(entries, k, nested) ==
  IF k > Len(entries) THEN <<>>
  ELSE (CASE entries[k] = Dir -> <<>>
          [] entries[k] = Zip -> Prefixed(k, nested)
          [] entries[k] = Other -> <<>>
          [] OTHER -> <<[fileName |-> <<k>>, doc |-> entries[k]]>>)
       \o EntryFiles(entries, k + 1, nested)

extractPdfsFromZipBug(zip) ==
  IF zip = <<>> THEN <<>> ELSE EntryFiles(Head(zip), 1, <<>>)

\* extractPdfsFromZip: the PDF files of an archive and of the archives in it.
RECURSIVE extractPdfsFromZip(_)
extractPdfsFromZip(zip) ==
  IF zip = <<>> THEN <<>>
  ELSE EntryFiles(Head(zip), 1, extractPdfsFromZip(Tail(zip)))

\* The calls of extractPdfsFromZip that are on the stack at its deepest.
RECURSIVE RecursionDepth(_)
RecursionDepth(zip) ==
  IF zip # <<>> /\ HasZip(Head(zip))
  THEN 1 + RecursionDepth(Tail(zip))
  ELSE 1

\* The candidates of the extracted files: splitBulkPdf on each.
RECURSIVE Extract(_)
Extract(files) ==
  IF files = <<>> THEN <<>>
  ELSE splitBulkPdf(Head(files).doc) \o Extract(Tail(files))

\* findByIppisNumber: exact lookup; 0 is "no employee".
findByIppisNumberBug(ippis) == IF ippis \in 1..NEmp THEN ippis ELSE 1

findByIppisNumber(ippis) == IF ippis \in 1..NEmp THEN ippis ELSE 0

\* payslip.ippisNumber || 'IPPIS4536': the number a candidate is looked up
\* under.  No employee of the directory carries the fallback number.
Sentinel == 0

LookupKey(ippis) == IF ippis = NoIppis THEN Sentinel ELSE ippis

\* ------------------------------------------------------- ingest, per row
ClearBufferBug(st) == st

\* finally { payslip.pdfBuffer = null }: the candidate at hand lets go of
\* its bytes.  st.buffers tells, for every candidate, whether it holds them.
ClearBuffer(st) == [st EXCEPT !.buffers[st.i] = FALSE]

IngestMissBug(st) == [st EXCEPT !.i = @ + 1]

IngestMiss(st) == [st EXCEPT !.failedCount = @ + 1, !.i = @ + 1]

IngestHitBug(st) == [st EXCEPT !.i = @ + 1]

IngestHit(st) == [st EXCEPT !.processedCount = @ + 1, !.i = @ + 1]

\* ---------------------------------------------------- distribution rules
Selected(row) == ~row.emailSent \/ row.emailError # NULL

SelectPayslips(rows) == SelectSeq(rows, Selected)

Reverse(seq) == [k \in 1..Len(seq) |-> seq[Len(seq) + 1 - k]]

\* include: { payslips: { where: ... } } with no orderBy: the store returns
\* the selected rows in an order of its own.  Every order is followed for
\* selections of up to MaxPerm rows; for longer ones the order of creation
\* and its reverse.  SelectPayslips is the order of creation, one of them.
QueryOrders(rows) ==
  LET sel == SelectPayslips(rows) IN
  IF Len(sel) <= MaxPerm
  THEN {[k \in 1..Len(sel) |-> sel[f[k]]] : f \in Permutations(1..Len(sel))}
  ELSE {sel, Reverse(sel)}

AlreadySentBug(snap) == snap.emailSent

AlreadySent(snap) == snap.emailSent /\ snap.emailSentAt # NULL /\ snap.emailError = NULL

MarkSent(row) == [row EXCEPT !.emailSent = TRUE, !.emailSentAt = SET, !.emailError = NULL]

MarkFailedBug(row, msg) == row

MarkFailedReset(row, msg) == [row EXCEPT !.emailSent = FALSE, !.emailError = msg]

MarkFailed(row, msg) == [row EXCEPT !.emailError = msg]

FinalEmailStatusBug(successCount, failureCount) ==
  IF failureCount > 0 \/ successCount > 0 THEN "partial" ELSE "completed"

FinalEmailStatus(successCount, failureCount) ==
  IF failureCount > 0 /\ successCount > 0 THEN "partial"
  ELSE IF failureCount > 0 /\ successCount = 0 THEN "failed"
  ELSE "completed"

\* The payslips of a run are sent in chunks of EMAIL_BATCH_SIZE.
EMAIL_BATCH_SIZE == 10

\* The number of chunks that lie wholly before payslip i of the selection.
ChunksBefore(i) == (i - 1) \div EMAIL_BATCH_SIZE

\* if (i + EMAIL_BATCH_SIZE < batch.payslips.length): the run stands between
\* two chunks and has not yet waited there.  st.delays holds, for every wait
\* of the run, the number of payslips handled before it.
DelayDueBug(st) ==
  /\ st.i > 1
  /\ (st.i - 1) % EMAIL_BATCH_SIZE = 0
  /\ Len(st.delays) < ChunksBefore(st.i)

DelayDue(st) ==
  /\ st.i > 1 /\ st.i <= Len(st.sel)
  /\ (st.i - 1) % EMAIL_BATCH_SIZE = 0
  /\ Len(st.delays) < ChunksBefore(st.i)

\* The Notifier accepts a message for payslip id: accepted is the history of
\* the payslips it has accepted a message for.
Deliver(id) == accepted' = accepted \cup {id}

SendResult(kind, st, status) ==
  [NoResult EXCEPT !.kind = kind, !.successCount = st.successCount,
                   !.failureCount = st.failureCount,
                   !.skippedCount = st.skippedCount, !.emailStatus = status]

\* ------------------------------------------------------ job progress
\* The candidates of an ingest are handled in chunks of BATCH_SIZE.
BATCH_SIZE == 50

\* Math.round(a / b), for a >= 0 and b > 0.
Round(a, b) == (2 * a + b) \div (2 * b)

Min(a, b) == IF a < b THEN a ELSE b

\* Math.min(95, Math.round(((i + batch.length) / totalFiles) * 95) + 5)
IngestPercentage(done, total) == Min(95, Round(done * 95, total) + 5)

\* Math.round((processed / totalPayslips) * 100)
SendPercentage(processed, total) == Round(processed * 100, total)

\* job.updateProgress(r): the reports of a job, in the order it made them.
\* A request has no job and reports nothing.
Report(p, st, r) ==
  IF p = Worker THEN [st EXCEPT !.progress = Append(@, r)] ELSE st

\* The report that opens an ingest; it carries no total.
ParsingReport == [stage |-> "parsing", processed |-> 0, percentage |-> 0]

\* The report after the extraction and before the first chunk.
ExtractedReport(total) ==
  [stage |-> "processing", processed |-> 0, total |-> total, percentage |-> 5]

ChunkEndsBug(st, n, size) == st.i > n

\* st stands at the end of a chunk of size candidates or payslips.
ChunkEnds(st, n, size) == (st.i - 1) % size = 0 \/ st.i > n

\* The report at the end of a chunk of an ingest, st being the state after
\* the last candidate of the chunk.
IngestProgress(p, st) ==
  IF ChunkEnds(st, Len(st.inputs), BATCH_SIZE)
  THEN Report(p, st,
         [stage |-> "processing",
          processed |-> st.processedCount + st.failedCount,
          total |-> st.nCandidates,
          percentage |-> IngestPercentage(st.i - 1, st.nCandidates)])
  ELSE st

\* The report that closes an ingest.
IngestCompleted(st) ==
  [stage |-> "completed", processed |-> st.processedCount + st.failedCount,
   total |-> st.processedCount + st.failedCount, percentage |-> 100]

\* The report that opens a run of the send job.
SendingReport(total) ==
  [stage |-> "sending", processed |-> 0, total |-> total, percentage |-> 0]

\* The report at the end of a chunk of a run, st being the state after the
\* last payslip of the chunk.
SendProgress(p, st) ==
  IF ChunkEnds(st, Len(st.sel), EMAIL_BATCH_SIZE)
  THEN LET processed == st.successCount + st.failureCount + st.skippedCount IN
       Report(p, st,
         [stage |-> "sending", processed |-> processed, total |-> Len(st.sel),
          percentage |-> SendPercentage(processed, Len(st.sel))])
  ELSE st

\* The report that closes a run of the send job.
SendCompleted(st) ==
  [stage |-> "completed", processed |-> Len(st.sel), total |-> Len(st.sel),
   percentage |-> 100]

Return(st, res) == [Idle EXCEPT !.op = st.op, !.pc = "return",
                                !.progress = st.progress,
                                !.log = st.log, !.nCandidates = st.nCandidates,
                                !.result = res]

Set(p, st) == proc' = [proc EXCEPT ![p] = st]

\* ===================================================== ingest (upload) ===
\* PayslipService.uploadAndProcess: the request creates the batch row itself.
uploadAndProcess(p, file) ==
  /\ p \in Clients
  /\ proc[p].op = "idle"
  /\ upload = NoUpload
  /\ upload' = NewUpload
  /\ Set(p, [Idle EXCEPT !.op = "upload", !.pc = "extract", !.inputs = file])
  /\ UNCHANGED <<payslips, accepted, jobs>>

\* Enqueue of a 'payslip-upload' job: the batch row exists in its created
\* state when the worker receives the job.
EnqueueUpload(file) ==
  /\ proc[Worker].op = "idle"
  /\ upload = NoUpload
  /\ upload' = DefaultUpload
  /\ Set(Worker, [Idle EXCEPT !.op = "upload", !.pc = "start", !.inputs = file])
  /\ UNCHANGED <<payslips, accepted, jobs>>

\* processPayslipUpload: status := 'processing'.
UploadStart(p) ==
  /\ proc[p].op = "upload" /\ proc[p].pc = "start"
  /\ upload' = [upload EXCEPT !.status = "processing"]
  /\ Set(p, Report(p, [proc[p] EXCEPT !.pc = "extract"], ParsingReport))
  /\ UNCHANGED <<payslips, accepted, jobs>>

\* extractPdfsFromZip / splitBulkPdf, then totalFiles := number of candidates.
\* A corrupt file throws into the catch block.
UploadExtract(p) ==
  /\ proc[p].op = "upload" /\ proc[p].pc = "extract"
  /\ \E corrupt \in BOOLEAN :
       IF corrupt
       THEN /\ Set(p, [proc[p] EXCEPT !.pc = "catch", !.inputs = <<>>])
            /\ UNCHANGED upload
       ELSE LET cands == Extract(extractPdfsFromZip(proc[p].inputs)) IN
            /\ upload' = [upload EXCEPT !.totalFiles = Len(cands)]
            /\ Set(p, Report(p, [proc[p] EXCEPT !.pc = "loop", !.inputs = cands,
                                                !.buffers = [k \in DOMAIN cands |-> TRUE],
                                                !.nCandidates = Len(cands), !.i = 1],
                              ExtractedReport(Len(cands))))
  /\ UNCHANGED <<payslips, accepted, jobs>>

\* One candidate: resolve the employee, create the payslip row or count a miss.
\* A failing lookup or create throws into the catch block.
UploadCandidate(p) ==
  /\ proc[p].op = "upload" /\ proc[p].pc = "loop"
  /\ proc[p].i <= Len(proc[p].inputs)
  /\ LET st == proc[p]
         employee == findByIppisNumber(LookupKey(st.inputs[st.i])) IN
     \E storeError \in BOOLEAN :
       IF storeError
       THEN /\ Set(p, ClearBuffer([st EXCEPT !.pc = "catch"]))
            /\ UNCHANGED payslips
       ELSE IF employee = 0
       THEN /\ Set(p, IngestProgress(p, IngestMiss(ClearBuffer(st))))
            /\ UNCHANGED payslips
       ELSE /\ payslips' = Append(payslips, NewPayslip(Len(payslips) + 1, employee))
            /\ Set(p, IngestProgress(p, IngestHit(ClearBuffer(st))))
  /\ UNCHANGED <<upload, accepted, jobs>>

\* After the last chunk: status := 'processed' with the final counts.
UploadFinish(p) ==
  /\ proc[p].op = "upload" /\ proc[p].pc = "loop"
  /\ proc[p].i > Len(proc[p].inputs)
  /\ LET st == proc[p] IN
     /\ upload' = [upload EXCEPT !.status = "processed",
                                 !.processedFiles = st.processedCount,
                                 !.totalFiles = st.processedCount + st.failedCount]
     /\ Set(p, Return(Report(p, st, IngestCompleted(st)),
                       [NoResult EXCEPT !.kind = "ok",
                             !.totalFiles = st.processedCount + st.failedCount,
                             !.processedFiles = st.processedCount,
                             !.failedFiles = st.failedCount]))
  /\ UNCHANGED <<payslips, accepted, jobs>>

\* catch: status := 'failed', the error is rethrown.
UploadCatchBug(p) ==
  /\ proc[p].op = "upload" /\ proc[p].pc = "catch"
  /\ Set(p, Return(proc[p], [NoResult EXCEPT !.kind = "error"]))
  /\ UNCHANGED <<upload, payslips, accepted, jobs>>

UploadCatch(p) ==
  /\ proc[p].op = "upload" /\ proc[p].pc = "catch"
  /\ upload' = [upload EXCEPT !.status = "failed"]
  /\ Set(p, Return(proc[p], [NoResult EXCEPT !.kind = "error"]))
  /\ UNCHANGED <<payslips, accepted, jobs>>

\* The request is answered, or the job leaves the worker.
Respond(p) ==
  /\ proc[p].pc = "return"
  /\ Set(p, Idle)
  /\ UNCHANGED <<upload, payslips, accepted, jobs>>

\* ================================================ distribution (send) ===
\* PayslipService.sendBatch, up to its first store write: read the batch
\* with its unsent-or-failed payslips, then the status and empty checks.
sendBatchOf(p, sel) ==
  /\ p \in Clients
  /\ proc[p].op = "idle"
  /\ LET st == [Idle EXCEPT !.op = "send"] IN
     IF upload = NoUpload
     THEN Set(p, Return(st, [NoResult EXCEPT !.kind = "notfound"]))
     ELSE IF upload.status # "processed"
     THEN Set(p, Return(st, [NoResult EXCEPT !.kind = "rejected"]))
     ELSE IF sel = <<>>
     THEN Set(p, Return(st, SendResult("already", st, "completed")))
     ELSE Set(p, [st EXCEPT !.pc = "mark", !.sel = sel, !.i = 1])
  /\ UNCHANGED <<upload, payslips, accepted, jobs>>

\* sendBatch with the selection in its order of creation.
sendBatch(p) == sendBatchOf(p, SelectPayslips(payslips))

\* sendBatch: emailStatus := 'sending', sentAt := now.
SendMark(p) ==
  /\ proc[p].op = "send" /\ proc[p].pc = "mark"
  /\ upload' = [upload EXCEPT !.emailStatus = "sending", !.sentAt = SET]
  /\ Set(p, [proc[p] EXCEPT !.pc = "loop"])
  /\ UNCHANGED <<payslips, accepted, jobs>>

\* PayslipQueueConsumer.process with a 'payslip-send' job, up to the first
\* store write of processPayslipSend: no status check is made.  A failing
\* read of the batch throws into the outer catch.
processPayslipSendOf(p, sel) ==
  /\ p = Worker
  /\ proc[p].op = "idle"
  /\ upload # NoUpload
  /\ LET st == [Idle EXCEPT !.op = "send"] IN
     \E readError \in BOOLEAN :
       IF readError
       THEN Set(p, [st EXCEPT !.pc = "outercatch"])
       ELSE IF sel = <<>>
       THEN Set(p, [st EXCEPT !.pc = "empty"])
       ELSE Set(p, Report(p, [st EXCEPT !.pc = "loop", !.sel = sel, !.i = 1],
                          SendingReport(Len(sel))))
  /\ UNCHANGED <<upload, payslips, accepted, jobs>>

\* The send job with the selection in its order of creation.
processPayslipSend(p) == processPayslipSendOf(p, SelectPayslips(payslips))

\* processPayslipSend, empty selection: status and emailStatus := 'completed'.
SendEmpty(p) ==
  /\ proc[p].op = "send" /\ proc[p].pc = "empty"
  /\ upload' = [upload EXCEPT !.status = "completed", !.emailStatus = "completed",
                              !.completedAt = SET]
  /\ Set(p, Return(proc[p], SendResult("already", proc[p], "completed")))
  /\ UNCHANGED <<payslips, accepted, jobs>>

\* Loop head for one payslip of the selection: the skip guard on the
\* selected snapshot, else the call of EmailService.sendPayslip, which
\* answers true (accepted) or false.
SendOne(p) ==
  /\ proc[p].op = "send" /\ proc[p].pc = "loop"
  /\ proc[p].i <= Len(proc[p].sel)
  /\ ~DelayDue(proc[p])
  /\ LET st == proc[p]
         snap == st.sel[st.i] IN
     IF AlreadySent(snap)
     THEN /\ Set(p, SendProgress(p, [st EXCEPT !.skippedCount = @ + 1,
                                               !.i = @ + 1,
                                               !.log = Append(@, "skipped")]))
          /\ UNCHANGED accepted
     ELSE \E ok \in BOOLEAN :
            /\ Set(p, [st EXCEPT !.pc = "update", !.emailSent = ok])
            /\ IF ok THEN Deliver(snap.id) ELSE UNCHANGED accepted
  /\ UNCHANGED <<upload, payslips, jobs>>

WriteRowBug(id, row) == payslips' = Append(payslips, row)

WriteRow(id, row) == payslips' = [payslips EXCEPT ![id] = row]

\* The store write after the send: sent + timestamp + no error, or the
\* error 'Failed to send email'.  A failing write throws into the catch.
SendUpdate(p) ==
  /\ proc[p].op = "send" /\ proc[p].pc = "update"
  /\ LET st == proc[p]
         id == st.sel[st.i].id IN
     \E storeError \in BOOLEAN :
       IF storeError
       THEN /\ Set(p, [st EXCEPT !.pc = "catch"])
            /\ UNCHANGED payslips
       ELSE IF st.emailSent
       THEN /\ WriteRow(id, MarkSent(payslips[id]))
            /\ Set(p, SendProgress(p, [st EXCEPT !.pc = "loop",
                                                 !.successCount = @ + 1,
                                                 !.i = @ + 1,
                                                 !.log = Append(@, "sent")]))
       ELSE /\ WriteRow(id, MarkFailed(payslips[id], "Failed to send email"))
            /\ Set(p, SendProgress(p, [st EXCEPT !.pc = "loop",
                                                 !.failureCount = @ + 1,
                                                 !.i = @ + 1,
                                                 !.log = Append(@, "failed")]))
  /\ UNCHANGED <<upload, accepted, jobs>>

SendCatchBug(p) ==
  /\ proc[p].op = "send" /\ proc[p].pc = "catch"
  /\ LET st == proc[p]
         id == st.sel[st.i].id IN
     /\ WriteRow(id, MarkFailed(payslips[id], "store error"))
     /\ Set(p, SendProgress(p, [st EXCEPT !.pc = "loop", !.i = @ + 1,
                                          !.log = Append(@, "failed")]))
  /\ UNCHANGED <<upload, accepted, jobs>>

\* The per-payslip catch: emailError := the error's message.  When this
\* write throws too, the error leaves the loop: sendBatch rejects its
\* request, processPayslipSend enters its outer catch.
SendCatch(p) ==
  /\ proc[p].op = "send" /\ proc[p].pc = "catch"
  /\ LET st == proc[p]
         id == st.sel[st.i].id IN
     \E storeError \in BOOLEAN :
       IF storeError
       THEN /\ IF p = Worker
               THEN Set(p, [st EXCEPT !.pc = "outercatch"])
               ELSE Set(p, Return(st, SendResult("error", st, "none")))
            /\ UNCHANGED payslips
       ELSE /\ WriteRow(id, MarkFailed(payslips[id], "store error"))
            /\ Set(p, SendProgress(p, [st EXCEPT !.pc = "loop",
                                                 !.failureCount = @ + 1,
                                                 !.i = @ + 1,
                                                 !.log = Append(@, "failed")]))
  /\ UNCHANGED <<upload, accepted, jobs>>

\* The one-second wait between two chunks.
SendDelay(p) ==
  /\ proc[p].op = "send" /\ proc[p].pc = "loop"
  /\ DelayDue(proc[p])
  /\ Set(p, [proc[p] EXCEPT !.delays = Append(@, proc[p].i - 1)])
  /\ UNCHANGED <<upload, payslips, accepted, jobs>>

\* processPayslipSend, outer catch: emailStatus := 'failed', rethrow.
SendOuterCatch(p) ==
  /\ proc[p].op = "send" /\ proc[p].pc = "outercatch"
  /\ upload' = [upload EXCEPT !.emailStatus = "failed"]
  /\ Set(p, Return(proc[p], SendResult("error", proc[p], "failed")))
  /\ UNCHANGED <<payslips, accepted, jobs>>

\* After the last chunk: the aggregate outcome and the counts are stored.
SendFinish(p) ==
  /\ proc[p].op = "send" /\ proc[p].pc = "loop"
  /\ proc[p].i > Len(proc[p].sel)
  /\ ~DelayDue(proc[p])
  /\ LET st == proc[p]
         emailStatus == FinalEmailStatus(st.successCount, st.failureCount) IN
     /\ upload' = [upload EXCEPT !.status = "completed", !.emailStatus = emailStatus,
                                 !.successCount = st.successCount,
                                 !.failureCount = st.failureCount,
                                 !.completedAt = SET]
     /\ Set(p, Return(Report(p, st, SendCompleted(st)),
                       SendResult("ok", st, emailStatus)))
  /\ UNCHANGED <<payslips, accepted, jobs>>

\* ============================================================ resend ===
\* PayslipService.resendPayslip: findUnique.
resendPayslip(p, id) ==
  /\ p \in Clients
  /\ proc[p].op = "idle"
  /\ LET st == [Idle EXCEPT !.op = "resend"] IN
     IF id \notin DOMAIN payslips
     THEN Set(p, Return(st, [NoResult EXCEPT !.kind = "notfound"]))
     ELSE Set(p, [st EXCEPT !.pc = "check", !.sel = <<payslips[id]>>, !.i = 1])
  /\ UNCHANGED <<upload, payslips, accepted, jobs>>

\* resendPayslip: the already-sent guard on the row as read, else the send.
\* A refused send writes nothing and returns the row as read.
ResendSend(p) ==
  /\ proc[p].op = "resend" /\ proc[p].pc = "check"
  /\ LET st == proc[p]
         snap == st.sel[1] IN
     IF AlreadySent(snap)
     THEN /\ Set(p, Return([st EXCEPT !.log = <<"skipped">>],
                           [NoResult EXCEPT !.kind = "already"]))
          /\ UNCHANGED accepted
     ELSE \E ok \in BOOLEAN :
            IF ok
            THEN /\ Set(p, [st EXCEPT !.pc = "update", !.emailSent = TRUE])
                 /\ Deliver(snap.id)
            ELSE /\ Set(p, Return([st EXCEPT !.log = <<"failed">>],
                                  [NoResult EXCEPT !.kind = "ok"]))
                 /\ UNCHANGED accepted
  /\ UNCHANGED <<upload, payslips, jobs>>

\* resendPayslip: sent + timestamp + no error; a failing write is rethrown.
ResendUpdate(p) ==
  /\ proc[p].op = "resend" /\ proc[p].pc = "update"
  /\ LET st == proc[p]
         id == st.sel[1].id IN
     \E storeError \in BOOLEAN :
       IF storeError
       THEN /\ Set(p, Return(st, [NoResult EXCEPT !.kind = "error"]))
            /\ UNCHANGED payslips
       ELSE /\ WriteRow(id, MarkSent(payslips[id]))
            /\ Set(p, Return([st EXCEPT !.log = <<"sent">>],
                             [NoResult EXCEPT !.kind = "ok"]))
  /\ UNCHANGED <<upload, accepted, jobs>>

\* extractPdfsFromZip applied to an archive by itself: the files it yields,
\* or the error of an archive that cannot be read.
Unzip(p) ==
  /\ \A q \in Procs : proc[q].op = "idle"
  /\ upload = NoUpload
  /\ \E zip \in Zips, corrupt \in BOOLEAN :
       Set(p, [Idle EXCEPT !.op = "unzip", !.pc = "return", !.inputs = zip,
                 !.sel = IF corrupt THEN <<>> ELSE extractPdfsFromZip(zip),
                 !.i = IF corrupt THEN 0 ELSE RecursionDepth(zip),
                 !.result = [NoResult EXCEPT
                               !.kind = IF corrupt THEN "error" ELSE "ok"]])
  /\ UNCHANGED <<upload, payslips, accepted, jobs>>

Init ==
  /\ upload = NoUpload
  /\ payslips = <<>>
  /\ proc = [p \in Procs |-> Idle]
  /\ accepted = {}
  /\ jobs = <<>>


\* No request and no job is in progress.
Quiet == \A q \in Procs : proc[q].op = "idle"

\* The first client: where requests run one at a time, one slot is enough.
Client1 == CHOOSE c \in Clients : \A d \in Clients : c <= d

IngestNext(files) ==
  \/ \E file \in files : uploadAndProcess(Client1, file)
  \/ \E file \in files : EnqueueUpload(file)
  \/ \E p \in Procs : UploadStart(p)
  \/ \E p \in Procs : UploadExtract(p)
  \/ \E p \in Procs : UploadCandidate(p)
  \/ \E p \in Procs : UploadFinish(p)
  \/ \E p \in Procs : UploadCatch(p)

SendSteps ==
  \/ \E p \in Procs : SendMark(p)
  \/ \E p \in Procs : SendEmpty(p)
  \/ \E p \in Procs : SendOne(p)
  \/ \E p \in Procs : SendUpdate(p)
  \/ \E p \in Procs : SendCatch(p)
  \/ \E p \in Procs : SendOuterCatch(p)
  \/ \E p \in Procs : SendFinish(p)
  \/ \E p \in Procs : Respond(p)

ResendSteps ==
  \/ \E p \in Procs : ResendSend(p)
  \/ \E p \in Procs : ResendUpdate(p)

\* The pipeline of one batch, one request or job at a time.
SeqSendBatch == Quiet /\ sendBatch(Client1)

SeqSendJob == Quiet /\ processPayslipSend(Worker)

SeqResend == \E id \in 1..MaxDocs : Quiet /\ resendPayslip(Client1, id)

Next ==
  \/ IngestNext(Files1)
  \/ SeqSendBatch
  \/ SeqSendJob
  \/ SeqResend
  \/ SendSteps
  \/ ResendSteps

Spec == Init /\ [][Next]_vars

\* Ingest and distribution runs only, one at a time: no single resends.
RunsNext ==
  \/ IngestNext(Files1)
  \/ SeqSendBatch
  \/ SeqSendJob
  \/ SendSteps

SpecRuns == Init /\ [][RunsNext]_vars

\* Ingest and distribution runs, one at a time, with the selection of a run
\* in any order the store may return it in.
OrderNext ==
  \/ IngestNext(Files1)
  \/ Quiet /\ \E sel \in QueryOrders(payslips) : sendBatchOf(Client1, sel)
  \/ Quiet /\ \E sel \in QueryOrders(payslips) : processPayslipSendOf(Worker, sel)
  \/ SendSteps

SpecOrder == Init /\ [][OrderNext]_vars

\* Ingest alone.
SpecIngest == Init /\ [][IngestNext(Files) \/ \E p \in Procs : Respond(p)]_vars

\* The ingest job of an upload of up to MaxBulk documents of one kind, all
\* of an employee or all of nobody, followed through its chunks.
BulkFiles == {<<[k \in 1..n |-> d]>> : n \in 0..MaxBulk, d \in {0, 1}}

BulkNext ==
  \/ \E file \in BulkFiles : EnqueueUpload(file)
  \/ UploadStart(Worker)
  \/ UploadExtract(Worker)
  \/ UploadCandidate(Worker)
  \/ UploadFinish(Worker)
  \/ UploadCatch(Worker)
  \/ Respond(Worker)

SpecBulk == Init /\ [][BulkNext]_vars

\* Extraction of nested archives, by itself and at the head of an ingest.
ExtractNext ==
  \/ Unzip(Client1)
  \/ proc[Client1].op # "unzip" /\ IngestNext(NestedFiles)
  \/ \E p \in Procs : Respond(p)

SpecExtract == Init /\ [][ExtractNext]_vars

\* Requests and jobs overlapping on an ingested batch of MaxRows payslips,
\* all unsent.
ConcInit ==
  /\ upload = [NoUpload EXCEPT !.status = "processed", !.emailStatus = "pending",
                               !.totalFiles = MaxRows, !.processedFiles = MaxRows]
  /\ payslips = [id \in 1..MaxRows |-> NewPayslip(id, 1)]
  /\ proc = [p \in Procs |-> Idle]
  /\ accepted = {}
  /\ jobs = <<>>

ConcNext ==
  \/ \E p \in Clients : sendBatch(p)
  \/ processPayslipSend(Worker)
  \/ \E p \in Clients, id \in 1..MaxRows : resendPayslip(p, id)
  \/ SendSteps
  \/ ResendSteps

SpecConc == ConcInit /\ [][ConcNext]_vars

\* One request at a time beside the worker: a run of the send job with a
\* request, sendBatch or resendPayslip, overlapping it.
PairNext ==
  \/ sendBatch(Client1)
  \/ processPayslipSend(Worker)
  \/ \E id \in 1..MaxRows : resendPayslip(Client1, id)
  \/ SendSteps
  \/ ResendSteps

SpecPair == ConcInit /\ [][PairNext]_vars

\* The first distribution of an ingested batch of up to MaxSel payslips,
\* followed through its chunks and waits.  At most MaxFailures payslips of
\* the run fail.
ChunkInit ==
  \E n \in 0..MaxSel :
    /\ upload = [NoUpload EXCEPT !.status = "processed", !.emailStatus = "pending",
                                 !.totalFiles = n, !.processedFiles = n]
    /\ payslips = [id \in 1..n |-> NewPayslip(id, 1)]
    /\ proc = [p \in Procs |-> Idle]
    /\ accepted = {}
    /\ jobs = <<>>

\* The step of p lets a payslip fail only within the run's allowance.
FewFailures(p) ==
  (proc'[p].pc = "catch" \/ (proc'[p].pc = "update" /\ ~proc'[p].emailSent))
  => proc[p].failureCount < MaxFailures

\* No distribution of the batch has been started yet.
Fresh == upload.emailStatus = "pending"

ChunkNext ==
  \/ Fresh /\ SeqSendBatch
  \/ Fresh /\ SeqSendJob
  \/ \E p \in Procs : SendMark(p)
  \/ \E p \in Procs : SendEmpty(p)
  \/ \E p \in Procs : SendOne(p) /\ FewFailures(p)
  \/ \E p \in Procs : SendUpdate(p) /\ FewFailures(p)
  \/ \E p \in Procs : SendCatch(p)
  \/ \E p \in Procs : SendDelay(p)
  \/ \E p \in Procs : SendOuterCatch(p)
  \/ \E p \in Procs : SendFinish(p)
  \/ \E p \in Procs : Respond(p)

SpecChunks == ChunkInit /\ [][ChunkNext]_vars

\* ===================================================== job queue runtime ===
\* The two queues and their workers.  The work of a job is followed in the
\* specifications above; here a job is an entry of the queue, and its work
\* either returns or raises an error.  The rate limit of a worker only
\* holds a fetch back and is left out.
PayslipQueue == "payslip"
EmployeeQueue == "employee"

ConcurrencyBug(queue) == IF queue = PayslipQueue THEN 2 ELSE 3

\* @Processor(queue, {concurrency}): the jobs a queue's worker runs at once.
Concurrency(queue) == IF queue = PayslipQueue THEN 1 ELSE 2

\* The job names the consumer of a queue knows.
JobTypes(queue) ==
  IF queue = PayslipQueue THEN {"payslip-upload", "payslip-send"}
  ELSE {"bulk-upload"}

processBug(queue, name, error) ==
  IF name \notin JobTypes(queue)
  THEN [threw |-> TRUE, reason |-> "Unknown job type"]
  ELSE [threw |-> FALSE, reason |-> NULL]

\* process: the consumer runs the work of a job it knows and returns its
\* result; an error of the work, and the error for a name it does not know,
\* is logged and thrown again.
process(queue, name, error) ==
  IF name \notin JobTypes(queue)
  THEN [threw |-> TRUE, reason |-> "Unknown job type"]
  ELSE IF error THEN [threw |-> TRUE, reason |-> "error"]
       ELSE [threw |-> FALSE, reason |-> NULL]

\* A submitted job.  runs counts the calls of the handler; raised records
\* that the work of the job ended in an error.
NewJob(queue, name) ==
  [queue |-> queue, name |-> name, state |-> "waiting", runs |-> 0,
   raised |-> FALSE, failedReason |-> NULL]

\* EmployeeService.bulkUpload: employeeQueue.add('bulk-upload', ...), with
\* no retry options.
bulkUpload ==
  /\ Len(jobs) < MaxJobs
  /\ jobs' = Append(jobs, NewJob(EmployeeQueue, "bulk-upload"))
  /\ UNCHANGED <<upload, payslips, proc, accepted>>

\* A job submitted to the payslip queue, under any name.
EnqueueJob(name) ==
  /\ Len(jobs) < MaxJobs
  /\ jobs' = Append(jobs, NewJob(PayslipQueue, name))
  /\ UNCHANGED <<upload, payslips, proc, accepted>>

\* The jobs of a queue that its worker is running.
Active(queue) ==
  {j \in DOMAIN jobs : jobs[j].queue = queue /\ jobs[j].state = "active"}

\* The worker of a queue takes a waiting job and calls the handler, while it
\* runs fewer jobs than its concurrency.
Fetch(j) ==
  /\ jobs[j].state = "waiting"
  /\ Cardinality(Active(jobs[j].queue)) < Concurrency(jobs[j].queue)
  /\ jobs' = [jobs EXCEPT ![j].state = "active", ![j].runs = @ + 1]
  /\ UNCHANGED <<upload, payslips, proc, accepted>>

\* The handler ends: the job is completed when it returns and failed, with
\* the error as its failure reason, when it throws.  The runtime retries
\* nothing.
Settle(j) ==
  /\ jobs[j].state = "active"
  /\ \E error \in BOOLEAN :
       LET out == process(jobs[j].queue, jobs[j].name, error) IN
       jobs' = [jobs EXCEPT
                  ![j].state = IF out.threw THEN "failed" ELSE "completed",
                  ![j].failedReason = out.reason,
                  ![j].raised = error \/ jobs[j].name \notin JobTypes(jobs[j].queue)]
  /\ UNCHANGED <<upload, payslips, proc, accepted>>

QueueNext ==
  \/ bulkUpload
  \/ \E name \in JobTypes(PayslipQueue) \cup {"other"} : EnqueueJob(name)
  \/ \E j \in DOMAIN jobs : Fetch(j)
  \/ \E j \in DOMAIN jobs : Settle(j)

SpecQueue == Init /\ [][QueueNext]_vars

\* ================================================================ claims
\* The run of p is between its selection and its final store write.
InRun(p) == proc[p].op = "send" /\ proc[p].pc \in {"loop", "update", "catch"}

\* p starts a distribution in this step (sendBatch or a payslip-send job).
StartsSend(p) == proc[p].op = "idle" /\ proc'[p].op = "send"

\* The Notifier is invoked for the current payslip of p's run in this step.
InvokesNotifier(p) ==
  /\ proc[p].op = "send" /\ proc[p].pc = "loop" /\ proc'[p].pc = "update"

\* The current payslip of p's run.
Current(p) == proc[p].sel[proc[p].i].id

Count(log, what) == Cardinality({j \in DOMAIN log : log[j] = what})

\* C1: while a distribution run of the batch is in progress, a second
\* distribution request is rejected; no two runs are active on the batch.
Claim_C1 ==
  [][\A p \in Clients :
       (/\ StartsSend(p)
        /\ upload.emailStatus = "sending"
        /\ \E q \in Procs \ {p} : InRun(q))
       => (/\ proc'[p].pc = "return"
           /\ proc'[p].result.kind = "rejected")]_vars

\* The run of q has sent payslip id and stored it as sent.
SentBy(q, id) ==
  /\ InRun(q)
  /\ \E j \in DOMAIN proc[q].log :
       proc[q].sel[j].id = id /\ proc[q].log[j] = "sent"

\* C2: the skip guard looks at the payslip's current delivery state: when
\* another run has sent the payslip by the moment this run reaches it, this
\* run counts it as skipped and does not invoke the Notifier.
Claim_C2 ==
  [][\A p \in Procs :
       (/\ proc[p].op = "send" /\ proc[p].pc = "loop"
        /\ proc[p].i <= Len(proc[p].sel)
        /\ proc'[p] # proc[p]
        /\ AlreadySent(payslips[Current(p)])
        /\ \E q \in Procs \ {p} : SentBy(q, Current(p)))
       => (/\ ~InvokesNotifier(p)
           /\ proc'[p].skippedCount = proc[p].skippedCount + 1)]_vars

\* C3: after a run that ended partially-sent, a new distribution request is
\* accepted and selects exactly the payslips that are not sent.
Claim_C3 ==
  [][\A p \in Procs :
       (StartsSend(p) /\ upload.emailStatus = "partial")
       => (/\ proc'[p].result.kind # "rejected"
           /\ proc'[p].sel = SelectSeq(payslips, LAMBDA r : ~AlreadySent(r)))]_vars

\* C4: over any sequence of distribution runs, the Notifier accepts the
\* message of each payslip at most once.
Claim_C4 ==
  [][\A p \in Procs :
       (InvokesNotifier(p) /\ proc'[p].emailSent)
       => Current(p) \notin accepted]_vars

\* C5: a run that finishes on a batch left partially-sent, with no failure
\* of its own, reports success = the m payslips that were not sent,
\* skip = the k payslips that were already sent, and stores fully-sent.
Claim_C5 ==
  [][\A p \in Procs :
       (/\ InRun(p) /\ proc'[p].pc = "return" /\ proc'[p].result.kind = "ok"
        /\ upload.emailStatus = "partial"
        /\ proc[p].failureCount = 0)
       => (/\ proc'[p].result.successCount = Len(proc[p].sel)
           /\ proc'[p].result.skippedCount = Len(payslips) - Len(proc[p].sel)
           /\ proc'[p].result.failureCount = 0
           /\ upload'.emailStatus = "completed")]_vars

\* Every payslip of the batch is sent, and there is at least one.
AllSent == payslips # <<>> /\ \A id \in DOMAIN payslips : AlreadySent(payslips[id])

\* C6: a distribution request on a batch whose payslips are all sent answers
\* success = 0, failure = 0, skip = 0, calls no Notifier and changes no
\* payslip, every time it is made.
Claim_C6 ==
  [][\A p \in Procs :
       (StartsSend(p) /\ AllSent)
       => (/\ \/ proc'[p].pc = "empty"
              \/ /\ proc'[p].pc = "return"
                 /\ proc'[p].result = SendResult("already", Idle, "completed")
           /\ payslips' = payslips
           /\ accepted' = accepted)]_vars

\* The delivery state a payslip row stands for.
Delivery(row) ==
  IF row.emailSent THEN "sent"
  ELSE IF row.emailError # NULL THEN "send-failed" ELSE "not-sent"

\* C7: in every state, a sent payslip has its timestamp and no error, and a
\* send-failed payslip has its error.
Claim_C7 ==
  \A id \in DOMAIN payslips :
    /\ Delivery(payslips[id]) = "sent" =>
         payslips[id].emailSentAt # NULL /\ payslips[id].emailError = NULL
    /\ Delivery(payslips[id]) = "send-failed" => payslips[id].emailError # NULL

\* The ingest runs in progress.
Ingesting == {p \in Procs : proc[p].op = "upload" /\ proc[p].pc # "return"}

\* C8: during an ingest run processed + failed <= the stored total, and when
\* the run has stored 'processed' the stored total equals processed + failed
\* and the number of candidates the extraction yielded.
Thm_C8 ==
  /\ \A p \in Ingesting :
       /\ proc[p].processedCount + proc[p].failedCount <= upload.totalFiles
       /\ proc[p].pc = "loop" => upload.totalFiles = proc[p].nCandidates
  /\ \A p \in Procs :
       (proc[p].op = "upload" /\ proc[p].pc = "return" /\ proc[p].result.kind = "ok")
       => /\ upload.status = "processed"
          /\ upload.totalFiles = proc[p].result.processedFiles + proc[p].result.failedFiles
          /\ upload.totalFiles = proc[p].nCandidates
          /\ upload.processedFiles = proc[p].result.processedFiles
  /\ upload.status = "processed" => upload.processedFiles <= upload.totalFiles

\* An ingest of three candidates ended 'processed' with hits and misses.
Wit_C8 ==
  \E p \in Procs :
    /\ proc[p].op = "upload" /\ proc[p].pc = "return"
    /\ proc[p].result.kind = "ok"
    /\ proc[p].nCandidates = 3
    /\ proc[p].result.processedFiles >= 1
    /\ proc[p].result.failedFiles >= 1
    /\ upload.status = "processed"

\* The aggregate outcome the per-payslip outcomes of a run call for.
Outcome(log) ==
  IF Count(log, "failed") = 0 THEN "completed"
  ELSE IF Count(log, "sent") > 0 THEN "partial" ELSE "failed"

\* A run that has stored its final outcome and is about to answer.
Finished(p) ==
  proc[p].op = "send" /\ proc[p].pc = "return" /\ proc[p].result.kind = "ok"

\* C9: a run that attempted at least one payslip stores fully-sent iff every
\* attempt succeeded, partially-sent iff some succeeded and some failed,
\* all-failed iff none succeeded, and reports the matching counts.
Thm_C9 ==
  \A p \in Procs :
    (Finished(p) /\ Count(proc[p].log, "sent") + Count(proc[p].log, "failed") >= 1)
    => /\ upload.emailStatus = Outcome(proc[p].log)
       /\ proc[p].result.emailStatus = upload.emailStatus
       /\ proc[p].result.successCount = Count(proc[p].log, "sent")
       /\ proc[p].result.failureCount = Count(proc[p].log, "failed")
       /\ proc[p].result.skippedCount = Count(proc[p].log, "skipped")
       /\ upload.successCount = proc[p].result.successCount
       /\ upload.failureCount = proc[p].result.failureCount

\* Three unsent payslips, the Notifier refused exactly one: 2, 1, 0, partial.
Wit_C9 ==
  \E p \in Procs :
    /\ Finished(p)
    /\ Len(payslips) = 3 /\ Len(proc[p].log) = 3
    /\ Cardinality({id \in DOMAIN payslips :
                      payslips[id].emailError = "Failed to send email"}) = 1
    /\ proc[p].result.successCount = 2
    /\ proc[p].result.failureCount = 1
    /\ proc[p].result.skippedCount = 0
    /\ upload.emailStatus = "partial"

\* C10: when the Notifier refuses a payslip, the row gets a non-null error,
\* the failure count grows by one and the run goes on to the next payslip;
\* a run ends only after every selected payslip was attempted, unless a
\* store write of the catch block throws.
Thm_C10 ==
  [][\A p \in Procs :
       /\ (/\ proc[p].op = "send" /\ proc[p].pc \in {"update", "catch"}
           /\ ~proc[p].emailSent
           /\ proc'[p].pc = "loop")
          => /\ Delivery(payslips'[Current(p)]) # "not-sent"
             /\ payslips'[Current(p)].emailError # NULL
             /\ proc'[p].failureCount = proc[p].failureCount + 1
             /\ proc'[p].i = proc[p].i + 1
             /\ proc'[p].sel = proc[p].sel
       /\ (/\ proc[p].op = "send" /\ proc[p].pc = "update"
           /\ ~proc[p].emailSent)
          => proc'[p].pc \in {"update", "loop", "catch"}
       /\ (InRun(p) /\ proc'[p].pc = "return" /\ proc'[p].result.kind = "ok")
          => /\ Len(proc'[p].log) = Len(proc[p].sel)
             /\ proc[p].i = Len(proc[p].sel) + 1
       /\ (InRun(p) /\ proc'[p].pc \notin {"loop", "update", "catch"}
                    /\ ~(proc'[p].pc = "return" /\ proc'[p].result.kind = "ok"))
          => proc[p].pc = "catch"]_vars

\* The Notifier refused a payslip and a later payslip of the run was attempted.
Wit_C10 ==
  \E p \in Procs :
    /\ InRun(p)
    /\ \E j \in DOMAIN proc[p].log :
         /\ proc[p].log[j] = "failed"
         /\ payslips[proc[p].sel[j].id].emailError = "Failed to send email"
         /\ j < Len(proc[p].log)

\* C11: when a store write for a payslip has failed during a run, the payslip
\* is counted as failed and the run goes on with the next payslip: the step
\* that handles the error never ends the run.
Claim_C11 ==
  [][\A p \in Procs :
       (proc[p].op = "send" /\ proc[p].pc = "catch" /\ proc'[p] # proc[p])
       => (/\ proc'[p].pc = "loop"
           /\ proc'[p].failureCount = proc[p].failureCount + 1
           /\ proc'[p].i = proc[p].i + 1
           /\ proc'[p].log = Append(proc[p].log, "failed"))]_vars

\* The ingest states in which a batch is not ready to send.
NotReady == {"pending", "processing", "failed"}

\* C12: a distribution started on a batch that is created, ingesting or
\* ingest-failed is rejected at once, and while the batch is in such a state
\* no distribution step calls the Notifier or changes the batch or a payslip.
Claim_C12 ==
  [][\A p \in Procs :
       /\ (StartsSend(p) /\ upload.status \in NotReady)
          => (proc'[p].pc = "return" /\ proc'[p].result.kind = "rejected")
       /\ (proc[p].op = "send" /\ proc'[p] # proc[p] /\ upload.status \in NotReady)
          => (upload' = upload /\ payslips' = payslips /\ accepted' = accepted)]_vars

\* An ingest step of p raises an error: the run is thrown into its catch block.
Raises(p) == proc[p].op = "upload" /\ proc[p].pc # "catch" /\ proc'[p].pc = "catch"

Claim_C14 ==
  \A p \in Procs :
    (proc[p].op = "upload" /\ proc[p].pc = "return")
    => upload.processedFiles = Len(payslips)

\* C15: every document of the upload is a candidate, also one the identifier
\* extraction finds no number in: the extraction step keeps one candidate
\* per document and stores their number as the total.
Claim_C15 ==
  [][\A p \in Procs :
       (proc[p].op = "upload" /\ proc[p].pc = "extract" /\ proc'[p].pc = "loop")
       => (/\ Len(proc'[p].inputs) = Len(extractPdfsFromZip(proc[p].inputs))
           /\ upload'.totalFiles = Len(extractPdfsFromZip(proc[p].inputs)))]_vars

\* The candidate p's ingest is at names no employee.
AtMiss(p) ==
  /\ proc[p].op = "upload" /\ proc[p].pc = "loop"
  /\ proc[p].i <= Len(proc[p].inputs)
  /\ proc[p].inputs[proc[p].i] \notin 1..NEmp

\* p's ingest stores 'processed' in this step.
Finishes(p) ==
  /\ proc[p].op = "upload" /\ proc[p].pc = "loop"
  /\ proc'[p].pc = "return" /\ proc'[p].result.kind = "ok"

\* C16: a candidate that names no employee adds one to the failed count,
\* stores no payslip and the ingest goes on with the next candidate; an
\* upload of one such document ends with total 1, processed 0, failed 1,
\* status 'processed' and no payslip.
Thm_C16 ==
  [][\A p \in Procs :
       /\ (AtMiss(p) /\ proc'[p].pc = "loop")
          => /\ proc'[p].failedCount = proc[p].failedCount + 1
             /\ proc'[p].processedCount = proc[p].processedCount
             /\ proc'[p].i = proc[p].i + 1
             /\ payslips' = payslips
       /\ (Finishes(p) /\ Len(proc[p].inputs) = 1 /\ proc[p].inputs[1] \notin 1..NEmp)
          => /\ upload'.status = "processed"
             /\ upload'.totalFiles = 1
             /\ upload'.processedFiles = 0
             /\ proc'[p].result.failedFiles = 1
             /\ payslips' = <<>>]_vars

\* An upload of one document that names no employee was ingested.
Wit_C16 ==
  \E p \in Procs :
    /\ proc[p].op = "upload" /\ proc[p].pc = "return"
    /\ proc[p].result.kind = "ok"
    /\ proc[p].nCandidates = 1
    /\ proc[p].result.failedFiles = 1
    /\ upload.status = "processed" /\ upload.totalFiles = 1
    /\ payslips = <<>>

\* C17: an ingest of n documents that all name an employee, when it ends,
\* stores total n, processed n, status 'processed' and reports failed 0, and
\* exactly n payslips exist, each not sent, without timestamp and error.
Thm_C17 ==
  [][\A p \in Procs :
       (Finishes(p) /\ \A j \in DOMAIN proc[p].inputs : proc[p].inputs[j] \in 1..NEmp)
       => /\ upload'.status = "processed"
          /\ upload'.totalFiles = Len(proc[p].inputs)
          /\ upload'.processedFiles = Len(proc[p].inputs)
          /\ proc'[p].result.failedFiles = 0
          /\ Len(payslips') = Len(proc[p].inputs)
          /\ \A id \in DOMAIN payslips' :
               /\ Delivery(payslips'[id]) = "not-sent"
               /\ payslips'[id].emailSentAt = NULL
               /\ payslips'[id].emailError = NULL
               /\ payslips'[id].employeeId = proc[p].inputs[id]]_vars

\* Three documents, all resolved: 3, 3, 0 and three unsent payslips.
Wit_C17 ==
  \E p \in Procs :
    /\ proc[p].op = "upload" /\ proc[p].pc = "return"
    /\ proc[p].result.kind = "ok"
    /\ proc[p].nCandidates = 3
    /\ proc[p].result.processedFiles = 3 /\ proc[p].result.failedFiles = 0
    /\ upload.totalFiles = 3 /\ upload.processedFiles = 3
    /\ Len(payslips) = 3

\* The distribution outcome an emailStatus stands for.
SendOutcome(emailStatus) ==
  CASE emailStatus = "completed" -> "fully-sent"
    [] emailStatus = "partial" -> "partially-sent"
    [] emailStatus = "failed" -> "all-failed"
    [] emailStatus = "sending" -> "distributing"
    [] OTHER -> "ready-to-send"

\* The lifecycle state a batch row stands for.
Lifecycle(u) ==
  CASE u.status = "none" -> "none"
    [] u.status = "pending" -> "created"
    [] u.status = "processing" -> "ingesting"
    [] u.status = "failed" -> "ingest-failed"
    [] OTHER -> SendOutcome(u.emailStatus)

\* The changes of lifecycle state the batch may make.
LifecycleSteps ==
  {<<"created", "ingesting">>, <<"ingesting", "ready-to-send">>,
   <<"ingesting", "ingest-failed">>, <<"ready-to-send", "distributing">>,
   <<"distributing", "fully-sent">>, <<"distributing", "partially-sent">>,
   <<"distributing", "all-failed">>}

\* C18: the lifecycle state of an existing batch changes only along
\* created -> ingesting -> {ready-to-send, ingest-failed} and
\* ready-to-send -> distributing -> {fully-sent, partially-sent, all-failed}.
Claim_C18 ==
  [][(upload # NoUpload /\ Lifecycle(upload') # Lifecycle(upload))
     => <<Lifecycle(upload), Lifecycle(upload')>> \in LifecycleSteps]_vars

\* A distribution run of p has ended, with its result or with an error.
Ended(p) ==
  /\ proc[p].op = "send" /\ proc[p].pc = "return"
  /\ proc[p].result.kind \in {"ok", "error"}

\* C19: when a distribution run has ended, normally or by an error, the
\* stored distribution state is fully-sent, partially-sent, all-failed or
\* failed, never 'sending'; a run that could not read its batch ends as a
\* failed job with the state 'failed'.
Claim_C19 ==
  \A p \in Procs :
    Ended(p) => upload.emailStatus \in {"completed", "partial", "failed"}

\* C20: a distribution request on a ready-to-send batch whose selection is
\* empty stores fully-sent at once, without 'sending' and without a call of
\* the Notifier, and answers all-zero counts with the already-sent note.
Claim_C20 ==
  [][\A p \in Procs :
       (/\ StartsSend(p) /\ proc'[p].pc # "outercatch"
        /\ Lifecycle(upload) = "ready-to-send"
        /\ SelectPayslips(payslips) = <<>>)
       => \/ /\ proc'[p].pc = "empty"
             /\ upload' = upload /\ accepted' = accepted
          \/ /\ proc'[p].pc = "return"
             /\ proc'[p].result = SendResult("already", Idle, "completed")
             /\ upload'.emailStatus = "completed"
             /\ accepted' = accepted]_vars

\* C21: no two payslips of the batch belong to the same employee.
Claim_C21 ==
  \A i, j \in DOMAIN payslips :
    i # j => payslips[i].employeeId # payslips[j].employeeId

\* The operations of the processes that take this step.
Stepping == {proc[p].op : p \in {q \in Procs : proc'[q] # proc[q]}}

\* This step creates one payslip and leaves the existing ones alone.
Creates ==
  /\ Len(payslips') = Len(payslips) + 1
  /\ SubSeq(payslips', 1, Len(payslips)) = payslips

\* This step changes payslips that exist, and neither creates nor deletes.
Mutates == payslips' # payslips /\ Len(payslips') = Len(payslips)

\* C24: a payslip is never deleted, is created only by an ingest, and an
\* existing payslip is changed only by a distribution run.
Claim_C24 ==
  [][/\ Len(payslips') >= Len(payslips)
     /\ Len(payslips') > Len(payslips) => (Creates /\ Stepping = {"upload"})
     /\ Mutates => Stepping = {"send"}]_vars

\* C24, amended: a payslip is never deleted, is created only by an ingest,
\* and an existing payslip is changed only by a distribution run or by a
\* resend of that payslip, which touch nothing but its delivery fields.
Thm_C24 ==
  [][/\ Len(payslips') >= Len(payslips)
     /\ Len(payslips') > Len(payslips) => (Creates /\ Stepping = {"upload"})
     /\ Mutates =>
          /\ Stepping \in {{"send"}, {"resend"}}
          /\ \A id \in DOMAIN payslips :
               /\ payslips'[id].id = payslips[id].id
               /\ payslips'[id].employeeId = payslips[id].employeeId]_vars

\* A resend has marked a payslip sent, and a run has marked another failed.
Wit_C24 ==
  /\ \E p \in Procs :
       /\ proc[p].op = "resend" /\ proc[p].pc = "return"
       /\ proc[p].log = <<"sent">>
  /\ \E id \in DOMAIN payslips : Delivery(payslips[id]) = "sent"
  /\ \E id \in DOMAIN payslips : Delivery(payslips[id]) = "send-failed"

\* C27: the result of an ingest carries a list of per-row errors with one
\* entry, identifier and origin path, for every candidate that failed.
Claim_C27 ==
  \A p \in Procs :
    (/\ proc[p].op = "upload" /\ proc[p].pc = "return"
     /\ proc[p].result.kind = "ok" /\ proc[p].result.failedFiles >= 1)
    => /\ "errors" \in DOMAIN proc[p].result
       /\ Len(proc[p].result.errors) = proc[p].result.failedFiles

\* The run of q has handed payslip id to the Notifier, which accepted it.
DeliveredBy(q, id) ==
  /\ InRun(q)
  /\ \/ SentBy(q, id)
     \/ proc[q].pc \in {"update", "catch"} /\ proc[q].emailSent /\ Current(q) = id

\* C28: a resend of a payslip that is sent without error calls no Notifier
\* and changes nothing; and a payslip is never delivered both by a resend
\* and by a distribution run that is in progress.
Claim_C28 ==
  [][\A p \in Procs :
       (proc[p].op = "resend" /\ proc[p].pc = "check" /\ proc'[p] # proc[p])
       => /\ AlreadySent(payslips[proc[p].sel[1].id])
             => (/\ proc'[p].pc = "return"
                 /\ accepted' = accepted /\ payslips' = payslips)
          /\ proc'[p].pc = "update"
             => ~\E q \in Procs : DeliveredBy(q, proc[p].sel[1].id)]_vars

\* C29: whenever a run calls the Notifier, the batch is stored as 'sending'
\* with its start timestamp.
Claim_C29 ==
  [][\A p \in Procs :
       InvokesNotifier(p)
       => (upload.emailStatus = "sending" /\ upload.sentAt # NULL)]_vars

\* The waits a run over n payslips makes: one after every full chunk that
\* is followed by another payslip.
Waits(n) == [k \in 1..ChunksBefore(n) |-> k * EMAIL_BATCH_SIZE]

\* C30: a run sends its n payslips in chunks of at most EMAIL_BATCH_SIZE:
\* every Notifier call is made after exactly one wait per chunk before it,
\* and a run that ends has waited ceil(n / 10) - 1 times, once after every
\* chunk but the last.
Thm_C30 ==
  [][\A p \in Procs :
       /\ InvokesNotifier(p)
          => /\ proc[p].delays = Waits(proc[p].i)
             /\ proc[p].i - Len(proc[p].delays) * EMAIL_BATCH_SIZE
                  \in 1..EMAIL_BATCH_SIZE
       /\ (InRun(p) /\ proc'[p].pc = "return" /\ proc'[p].result.kind = "ok")
          => /\ proc[p].delays = Waits(Len(proc[p].sel))
             /\ Len(proc[p].delays) * EMAIL_BATCH_SIZE < Len(proc[p].sel)
             /\ Len(proc[p].sel) <= (Len(proc[p].delays) + 1) * EMAIL_BATCH_SIZE]_vars

\* A run over 21 payslips is at its last payslip after two waits.
Wit_C30 ==
  \E p \in Procs :
    /\ InRun(p) /\ proc[p].pc = "update"
    /\ Len(proc[p].sel) = 21 /\ proc[p].i = 21
    /\ proc[p].delays = <<10, 20>>

\* An extraction of an archive by itself has returned its files.
Unzipped(p) ==
  /\ proc[p].op = "unzip" /\ proc[p].pc = "return"
  /\ proc[p].result.kind = "ok"

\* C25: the unpacking of nested archives is bounded: no extraction that
\* returns files has recursed deeper than the deepest nesting allowed
\* (MaxNest archives in one another); a deeper archive ends in an error.
Claim_C25 ==
  \A p \in Procs : Unzipped(p) => proc[p].i <= MaxNest

\* The paths to the document entries of an archive: positions that lead
\* through archive entries to an entry that is a document.
DocPaths(zip) ==
  {q \in UNION {[1..d -> UNION {DOMAIN zip[j] : j \in DOMAIN zip}] :
                   d \in 1..Len(zip)} :
     /\ \A j \in 1..Len(q) : q[j] \in DOMAIN zip[j]
     /\ \A j \in 1..(Len(q) - 1) : zip[j][q[j]] = Zip
     /\ zip[Len(q)][q[Len(q)]] \notin {Dir, Other, Zip}}

\* C26: the extraction of an archive yields one file per document entry
\* at any depth, tagged with the path of entry names that leads to it
\* (parent::child), and nothing for directories, other files and the
\* archives themselves; the ingest of an archive that holds an archive of
\* documents with a number has one candidate per document.
Thm_C26 ==
  [][\A p \in Procs :
       /\ Unzipped(p)'
          => LET zip == proc'[p].inputs
                 files == proc'[p].sel IN
             /\ Len(files) = Cardinality(DocPaths(zip))
             /\ {<<files[k].fileName, files[k].doc>> : k \in DOMAIN files}
                  = {<<q, zip[Len(q)][q[Len(q)]]>> : q \in DocPaths(zip)}
       /\ (/\ proc[p].op = "upload" /\ proc[p].pc = "extract"
           /\ proc'[p].pc = "loop"
           /\ \A q \in DocPaths(proc[p].inputs) :
                 proc[p].inputs[Len(q)][q[Len(q)]] # NoIppis)
          => /\ proc'[p].nCandidates = Cardinality(DocPaths(proc[p].inputs))
             /\ upload'.totalFiles = Cardinality(DocPaths(proc[p].inputs))]_vars

\* The ingest of an archive that holds an archive of two documents has
\* ended with two candidates, both processed.
Wit_C26 ==
  \E p \in Procs :
    /\ proc[p].op = "upload" /\ proc[p].pc = "return"
    /\ proc[p].result.kind = "ok"
    /\ proc[p].nCandidates = 2
    /\ proc[p].result.processedFiles = 2
    /\ Len(payslips) = 2

\* C22: a worker never runs more jobs of its queue at once than the
\* queue's concurrency: at most one payslip job, ingest or distribution,
\* is active at any time, and at most two employee bulk uploads.
Thm_C22 ==
  /\ Cardinality(Active(PayslipQueue)) <= 1
  /\ Cardinality(Active(EmployeeQueue)) <= 2

\* Two payslip jobs and two bulk uploads were submitted together: one
\* payslip job is running while the other waits, and both bulk uploads are
\* running.
Wit_C22 ==
  /\ Len(jobs) = 4
  /\ jobs[1].name = "payslip-upload" /\ jobs[1].state = "active"
  /\ jobs[2].name = "payslip-send" /\ jobs[2].state = "waiting"
  /\ jobs[3].queue = EmployeeQueue /\ jobs[3].state = "active"
  /\ jobs[4].queue = EmployeeQueue /\ jobs[4].state = "active"

\* C23: a job whose work raises an error becomes failed, with the failure
\* reason set; its handler is called at most once, a job that is failed or
\* completed is never run or changed again, and the only step that leads
\* to another call of a handler is the submission of a new job.
Thm_C23 ==
  [][\A j \in DOMAIN jobs :
       /\ jobs'[j].runs <= 1
       /\ (jobs[j].state = "active" /\ jobs'[j].state # "active")
          => IF jobs'[j].raised
             THEN jobs'[j].state = "failed" /\ jobs'[j].failedReason # NULL
             ELSE jobs'[j].state = "completed"
       /\ jobs[j].state \in {"failed", "completed"} => jobs'[j] = jobs[j]
       /\ jobs'[j].runs > jobs[j].runs => jobs[j].state = "waiting"]_vars

\* A bulk upload whose work raised an error is failed after one call of its
\* handler, and a bulk upload submitted after it is running.
Wit_C23 ==
  /\ Len(jobs) = 2
  /\ jobs[1].name = "bulk-upload" /\ jobs[1].state = "failed"
  /\ jobs[1].raised /\ jobs[1].failedReason = "error" /\ jobs[1].runs = 1
  /\ jobs[2].name = "bulk-upload" /\ jobs[2].state = "active"

\* The step of p stores the failure of the send of payslip id.
StoresFailure(p, id) ==
  /\ InRun(p) /\ proc[p].pc \in {"update", "catch"}
  /\ proc[p].sel[proc[p].i].id = id
  /\ proc'[p].failureCount = proc[p].failureCount + 1

\* C37: the sent flag of a payslip never goes back: no step of an ingest,
\* of a run or of a resend leaves a sent payslip unsent; and the store
\* write of a failed send sets the error of the payslip and changes no
\* other delivery field.
Thm_C37 ==
  [][\A id \in DOMAIN payslips :
       /\ payslips[id].emailSent => payslips'[id].emailSent
       /\ \A p \in Procs :
            StoresFailure(p, id)
            => /\ payslips'[id].emailError # NULL
               /\ payslips'[id].emailSent = payslips[id].emailSent
               /\ payslips'[id].emailSentAt = payslips[id].emailSentAt]_vars

\* A payslip that is sent carries the error of a later failed send.
Wit_C37 ==
  \E id \in DOMAIN payslips :
    /\ payslips[id].emailSent /\ payslips[id].emailSentAt # NULL
    /\ payslips[id].emailError # NULL

\* C36: whenever the stored distribution state of the batch is 'completed',
\* every payslip of the batch is sent and carries no error, whatever runs
\* overlap.
Claim_C36 ==
  upload.emailStatus = "completed"
  => \A id \in DOMAIN payslips :
       payslips[id].emailSent /\ payslips[id].emailError = NULL

Chunks(n, size) == (n + size - 1) \div size

\* The reports of an ingest job that ended well, over n candidates: one at
\* the start, one after the extraction, one after every chunk and one at
\* completion, the last with processed = total and percentage 100.
IngestReports(rs, n) ==
  /\ Len(rs) = Chunks(n, BATCH_SIZE) + 3
  /\ rs[1].stage = "parsing" /\ rs[1].processed = 0 /\ rs[1].percentage = 0
  /\ rs[2].stage = "processing" /\ rs[2].processed = 0
  /\ \A k \in 1..Chunks(n, BATCH_SIZE) :
       /\ rs[k + 2].stage = "processing"
       /\ rs[k + 2].processed = Min(k * BATCH_SIZE, n)
       /\ rs[k + 2].processed - rs[k + 1].processed \in 1..BATCH_SIZE
  /\ rs[Len(rs)].stage = "completed"
  /\ rs[Len(rs)].processed = rs[Len(rs)].total
  /\ rs[Len(rs)].percentage = 100

\* The report carries the four values, and processed <= total.
FullReport(r) ==
  /\ {"stage", "processed", "total", "percentage"} \subseteq DOMAIN r
  /\ r.processed <= r.total

\* C32 as stated: an ingest job that ends well has reported at the start,
\* once after every chunk of at most 50 candidates and at completion,
\* every report with stage, processed, total and percentage and with
\* processed <= total, the last with processed = total and percentage 100.
Claim_C32 ==
  [][Finishes(Worker)
     => LET rs == proc'[Worker].progress IN
        /\ IngestReports(rs, proc[Worker].nCandidates)
        /\ \A k \in DOMAIN rs : FullReport(rs[k])]_vars

\* C32, amended: as above, but the report at the start, made before the
\* candidates are extracted, carries stage, processed and percentage only;
\* every later report carries the total as well, with processed <= total.
Thm_C32 ==
  [][Finishes(Worker)
     => LET rs == proc'[Worker].progress IN
        /\ IngestReports(rs, proc[Worker].nCandidates)
        /\ {"stage", "processed", "percentage"} \subseteq DOMAIN rs[1]
        /\ \A k \in 2..Len(rs) : FullReport(rs[k])]_vars

\* An ingest job over 101 candidates has ended well with six reports, three
\* of them after a chunk: at 50, at 100 and at 101 candidates.
Wit_C32 ==
  /\ proc[Worker].op = "upload" /\ proc[Worker].pc = "return"
  /\ proc[Worker].result.kind = "ok"
  /\ proc[Worker].nCandidates = 101
  /\ Len(proc[Worker].progress) = 6
  /\ proc[Worker].progress[5].processed = 101

\* C38: within one ingest or send job the reported percentage never
\* decreases and stays within 0..100; 100 is reported only by the
\* completion report of a job that ended well; and a job over an empty
\* list makes no report for a chunk.
Claim_C38 ==
  LET st == proc[Worker]
      rs == st.progress IN
  /\ \A k \in DOMAIN rs : rs[k].percentage \in 0..100
  /\ \A k \in 1..(Len(rs) - 1) : rs[k].percentage <= rs[k + 1].percentage
  /\ \A k \in DOMAIN rs :
       rs[k].percentage = 100
       => /\ rs[k].stage = "completed" /\ k = Len(rs)
          /\ st.pc = "return" /\ st.result.kind = "ok"
  /\ (st.op = "upload" /\ st.pc = "return" /\ st.nCandidates = 0)
     => \A k \in DOMAIN rs : rs[k].processed = 0

\* C34: a run that completes has counted every payslip of its selection
\* once, as a success, a failure or a skip, and returns these counts; and
\* every progress report of a run has processed <= total.
Thm_C34 ==
  [][\A p \in Procs :
       /\ (InRun(p) /\ proc'[p].pc = "return" /\ proc'[p].result.kind = "ok")
          => /\ proc[p].successCount + proc[p].failureCount
                  + proc[p].skippedCount = Len(proc[p].sel)
             /\ proc'[p].result.successCount + proc'[p].result.failureCount
                  + proc'[p].result.skippedCount = Len(proc[p].sel)
       /\ proc'[p].op = "send"
          => \A k \in DOMAIN proc'[p].progress :
               /\ proc'[p].progress[k].processed <= proc'[p].progress[k].total
               /\ InRun(p)' => proc'[p].progress[k].total = Len(proc'[p].sel)]_vars

\* A send job over 21 payslips has completed with 20 successes and one
\* failure, after five reports.
Wit_C34 ==
  /\ proc[Worker].op = "send" /\ proc[Worker].pc = "return"
  /\ proc[Worker].result.kind = "ok"
  /\ proc[Worker].result.successCount = 20
  /\ proc[Worker].result.failureCount = 1
  /\ Len(proc[Worker].progress) = 5

\* p handles a candidate in this step: a payslip is stored, a miss is
\* counted, or the lookup or the write throws.
Handles(p) ==
  /\ proc[p].op = "upload" /\ proc[p].pc = "loop"
  /\ proc[p].i <= Len(proc[p].inputs)
  /\ proc'[p] # proc[p]

\* C33: the step that handles a candidate leaves it without its bytes,
\* whether a payslip was stored, no employee was found or the store threw;
\* so no candidate before the one at hand holds its bytes, in particular
\* none of a chunk that is complete.
Thm_C33 ==
  [][\A p \in Procs :
       /\ Handles(p) => ~proc'[p].buffers[proc[p].i]
       /\ (proc'[p].op = "upload" /\ proc'[p].pc \in {"loop", "catch"})
          => \A k \in DOMAIN proc'[p].buffers :
               k < proc'[p].i => ~proc'[p].buffers[k]]_vars

\* The write of the first candidate of the second chunk has thrown: the
\* job is in its catch block, and the candidate is without its bytes
\* while the candidates after it hold theirs.
Wit_C33 ==
  /\ proc[Worker].op = "upload" /\ proc[Worker].pc = "catch"
  /\ proc[Worker].i = BATCH_SIZE + 1
  /\ Len(proc[Worker].buffers) > BATCH_SIZE + 1
  /\ ~proc[Worker].buffers[BATCH_SIZE + 1]
  /\ proc[Worker].buffers[BATCH_SIZE + 2]

\* The rows of a selection are in the order of their creation.
CreationOrder(sel) ==
  \A j, k \in DOMAIN sel : j < k => sel[j].id < sel[k].id

\* C31: a run follows one order from start to end.  Ingest stores the
\* payslip of the candidate at hand after every payslip stored before it
\* and moves to the next candidate of the extractor's output; a
\* distribution run starts with its selection in the order of creation,
\* keeps it, and never steps back in it.
Claim_C31 ==
  [][\A p \in Procs :
       /\ (Handles(p) /\ payslips' # payslips)
          => /\ payslips' = Append(payslips,
                  NewPayslip(Len(payslips) + 1,
                             findByIppisNumber(LookupKey(proc[p].inputs[proc[p].i]))))
             /\ proc'[p].i = proc[p].i + 1
             /\ proc'[p].inputs = proc[p].inputs
       /\ (StartsSend(p) /\ InRun(p)') => CreationOrder(proc'[p].sel)
       /\ (InRun(p) /\ InRun(p)')
          => /\ proc'[p].sel = proc[p].sel
             /\ proc'[p].i >= proc[p].i]_vars

====
